---- MODULE Spec2Model ----
(***************************************************************************)
(* SignalBot (src/app.py): the scrape-and-score pipeline run_scrape, the   *)
(* Result table, the UsageMonth ledger and the scoring client              *)
(* ai_score_post.                                                          *)
(*                                                                         *)
(* run_scrape is called synchronously by whichever thread triggers it: the *)
(* BackgroundScheduler thread (run_all_scrapes) or a request thread        *)
(* (run_scrape_now, tasks_run_all).  Each call works in its own SQLAlchemy *)
(* session: rows it adds are INSERTed when the session autoflushes (before *)
(* the next query it issues) and become visible to other sessions only at  *)
(* db.session.commit(), line 638.                                          *)
(***************************************************************************)
EXTENDS Integers, Sequences, FiniteSets, TLC

\* Python None / SQL NULL, and a present integer
None == <<>>
Some(v) == <<v>>
\* None where a text is expected (a text is a sequence of characters, "" is <<>>)
NoText == <<"None">>

\* ------------------------------------------------------------- bounds
\* number of run_scrape calls explored
MaxRuns == 2
\* Plan.ai_posts_quota of the account's plan (3000 .. 100000 in the seed data)
Quota == 2
\* longest title and longest body the keyword matcher is applied to
MaxText == 2
\* most comma-separated pieces in a scrape's keywords field
MaxKeywords == 2
\* largest score, in absolute value, the scoring service is made to answer
MaxScore == 12

\* ------------------------------------------------------------- configuration
AI_MIN_SCORE == 6
AI_MAX_CONCURRENCY == 5

\* the threads that can be inside run_scrape at the same time
Workers == {"scheduler", "request"}
\* the Scrape rows, all owned by one account root
ScrapeIds == {1, 2}

\* scrape.subreddits, split and stripped
subreddit_list(j) == <<"s1", "s2">>
\* scrape.keywords, split, stripped and lower-cased
keyword_list(j) == << <<"h", "i">>, <<"j", "o", "b">> >>

\* what the source returns: subreddit.new(limit) of each subreddit
Listing(s) == IF s = "s1" THEN <<1, 2>> ELSE <<3>>
\* the posts: title and selftext as sequences of characters
Post(p) ==
    CASE p = 1 -> [id |-> 1, title |-> <<"H", "i">>, selftext |-> NoText]
      [] p = 2 -> [id |-> 2, title |-> <<"o", "k">>, selftext |-> <<>>]
      [] OTHER -> [id |-> 3, title |-> <<"a">>,
                   selftext |-> <<"J", "O", "B", " ", "h", "i">>]

\* ------------------------------------------------------------- keyword matcher
\* str.lower()
Lower(c) ==
    CASE c = "H" -> "h" [] c = "J" -> "j" [] c = "O" -> "o" [] c = "B" -> "b"
      [] c = "A" -> "a" [] OTHER -> c
LowerSeq(s) == [i \in 1..Len(s) |-> Lower(s[i])]
\* str.strip()
Strip(s) ==
    LET idx == {i \in 1..Len(s) : s[i] # " "}
    IN  IF idx = {} THEN <<>>
        ELSE SubSeq(s, CHOOSE i \in idx : \A k \in idx : i <= k,
                       CHOOSE i \in idx : \A k \in idx : i >= k)
\* [k.strip().lower() for k in scrape.keywords.split(',') if k.strip()], applied
\* to the pieces split(',') gives
ParseKeywords(pieces) ==
    LET kept == SelectSeq(pieces, LAMBDA k : Strip(k) # <<>>)
    IN  [i \in 1..Len(kept) |-> LowerSeq(Strip(kept[i]))]
\* variant of `kw in text_all`: the keyword is looked for at the start only
Contains_PrefixOnly(kw, t) ==
    Len(kw) <= Len(t) /\ SubSeq(t, 1, Len(kw)) = kw
\* Python `kw in text_all`
Contains(kw, t) ==
    \E i \in 0..(Len(t) - Len(kw)) : SubSeq(t, i + 1, i + Len(kw)) = kw
\* lines 575-577 for a given title and selftext
TextAll(title, selftext) ==
    LET t == IF title = NoText THEN <<>> ELSE title
        b == IF selftext = NoText THEN <<>> ELSE selftext
    IN  LowerSeq(t \o <<" ">> \o b)
\* line 578 for a given text
Found(text, kws) == SelectSeq(kws, LAMBDA kw : Contains(kw, text))
\* text_all = f"{title} {body}".lower(), with None read as ""
text_all(p) == TextAll(Post(p).title, Post(p).selftext)
\* found = [kw for kw in keyword_list if kw in text_all]
found(p, kws) == Found(text_all(p), kws)

\* ------------------------------------------------------------- scoring client
\* what the HTTP call to the scoring service can do: it raises (timeout, HTTP
\* layer, content that is not JSON), or it answers with a JSON object that has no
\* "score", or one whose "score" is a number. A number is written as a count of
\* halves (15 is 7.5, 14 is 7); "inf" is a number beyond the float range
\* (1e999), which json.loads reads as float('inf')
Responses ==
    {[kind |-> "raise", score |-> 0], [kind |-> "no_score", score |-> 0],
     [kind |-> "inf", score |-> 0]}
        \cup {[kind |-> "json", score |-> h] : h \in (-2 * MaxScore)..(2 * MaxScore)}
\* the responses the runs are explored with: while the service is down every
\* call fails, while it is up it answers with a score above the range
RunResponses(up) ==
    {x \in Responses : IF up THEN x.kind = "json" /\ x.score = 2 * MaxScore
                               ELSE x.kind = "raise"}
\* int(x) of a finite number given in halves: the fractional part is dropped
int(h) == IF h >= 0 THEN h \div 2 ELSE -((-h) \div 2)
\* variant of line 312: the upper limit is not applied
Clamp_NoUpper(s) == IF s < 1 THEN 1 ELSE s
\* score = max(1, min(10, score))
Clamp(s) == IF s < 1 THEN 1 ELSE IF s > 10 THEN 10 ELSE s
\* ai_score_post: (score, reason)
ai_score_post(key, resp) ==
    IF ~key THEN <<Some(0), "AI disabled (missing OPENAI_API_KEY)">>
    \* int(float('inf')) raises OverflowError, caught at line 314
    ELSE IF resp.kind \in {"raise", "inf"} THEN <<Some(0), "AI unavailable">>
    ELSE IF resp.kind = "no_score" THEN <<Some(Clamp(int(0))), "">>
    ELSE <<Some(Clamp(int(resp.score))), "reason">>

\* variants of the quota test: off by one, and inverted
HasHeadroom_OffByOne(count, quota) == count <= quota
HasHeadroom_Inverted(count, quota) == count >= quota
\* the quota test of line 599
HasHeadroom(count, quota) == count < quota

\* variants of lines 594-605: the ai_enabled flag is not consulted; a post refused
\* for quota gets the sentinel score 0
AiDecision_IgnoresFlag(ai_enabled, has_plan, count, key, resp) ==
    IF ~has_plan
    THEN [ai_score |-> None, ai_reasoning |-> "No active subscription",
          called |-> FALSE]
    ELSE IF HasHeadroom(count, Quota)
    THEN [ai_score |-> ai_score_post(key, resp)[1],
          ai_reasoning |-> ai_score_post(key, resp)[2], called |-> TRUE]
    ELSE [ai_score |-> None, ai_reasoning |-> "AI quota exceeded",
          called |-> FALSE]
AiDecision_ZeroOnQuota(ai_enabled, has_plan, count, key, resp) ==
    IF ~ai_enabled
    THEN [ai_score |-> None, ai_reasoning |-> "AI disabled for this scrape",
          called |-> FALSE]
    ELSE IF ~has_plan
    THEN [ai_score |-> None, ai_reasoning |-> "No active subscription",
          called |-> FALSE]
    ELSE IF HasHeadroom(count, Quota)
    THEN [ai_score |-> ai_score_post(key, resp)[1],
          ai_reasoning |-> ai_score_post(key, resp)[2], called |-> TRUE]
    ELSE [ai_score |-> Some(0), ai_reasoning |-> "AI quota exceeded",
          called |-> FALSE]

\* lines 594-605: the score, the reason, and whether the scoring client was called
AiDecision(ai_enabled, has_plan, count, key, resp) ==
    IF ~ai_enabled
    THEN [ai_score |-> None, ai_reasoning |-> "AI disabled for this scrape",
          called |-> FALSE]
    ELSE IF ~has_plan
    THEN [ai_score |-> None, ai_reasoning |-> "No active subscription",
          called |-> FALSE]
    ELSE IF HasHeadroom(count, Quota)
    THEN [ai_score |-> ai_score_post(key, resp)[1],
          ai_reasoning |-> ai_score_post(key, resp)[2], called |-> TRUE]
    ELSE [ai_score |-> None, ai_reasoning |-> "AI quota exceeded",
          called |-> FALSE]

\* ------------------------------------------------------------- CRM notifier
\* what a send_to_ghl call meets: the GHL credentials set or not, and what the
\* HTTP call does
GhlOutcomes ==
    {[key |-> FALSE, kind |-> "none"]}
        \cup {[key |-> TRUE, kind |-> k] : k \in {"2xx", "non2xx", "raise"}}
\* the outcomes the runs are explored with: the notification succeeds, or it
\* fails for one of its causes
RunOutcomes(ok) ==
    {o \in GhlOutcomes : IF ok THEN o.kind = "2xx" ELSE o.kind # "2xx"}
\* send_to_ghl: True on a 2xx answer, False otherwise
send_to_ghl(o) ==
    IF ~o.key THEN FALSE
    ELSE IF o.kind = "raise" THEN FALSE
    ELSE o.kind = "2xx"
\* ai_score_val or 0
OrZero(score) == IF score = None THEN 0 ELSE score[1]

\* variant of lines 623-631: a failed notification is sent a second time
Notify_Retry(ai_enabled, ai_score, o) ==
    IF ai_enabled /\ OrZero(ai_score) >= AI_MIN_SCORE
    THEN [called |-> TRUE, ok |-> send_to_ghl(o),
          calls |-> IF send_to_ghl(o) THEN 1 ELSE 2]
    ELSE [called |-> FALSE, ok |-> FALSE, calls |-> 0]
\* lines 623-631: whether send_to_ghl is called for the post, what it returns,
\* and the number of calls made
Notify(ai_enabled, ai_score, o) ==
    IF ai_enabled /\ OrZero(ai_score) >= AI_MIN_SCORE
    THEN [called |-> TRUE, ok |-> send_to_ghl(o), calls |-> 1]
    ELSE [called |-> FALSE, ok |-> FALSE, calls |-> 0]

\* ------------------------------------------------------------- state
VARIABLES
    uniqIndex,      \* uniq_result_scrape_post exists (ensure_db_upgrade committed)
    OPENAI_API_KEY, \* the credential is configured
    serviceUp,      \* the scoring service answers (else the call raises)
    hasPlan,        \* the account root has an active subscription
    ghlOk,          \* the CRM accepts notifications (else send_to_ghl fails)
    scrape,         \* Scrape rows
    results,        \* committed Result rows
    usage,          \* committed UsageMonth row of the current month
    lock,           \* the session holding the row lock on the UsageMonth row
    run,            \* per thread: the run_scrape call it is in, and its session
    exit,           \* how the run_scrape call that returned last ended (line 639
                    \* or 641), and the new rows a rollback dropped
    runs,           \* run_scrape calls started so far
    aiCalls,        \* posts sent to the scoring service this month
    responded,      \* the request thread is not inside a trigger handler: the
                    \* HTTP response of its last trigger has been returned
    probe,          \* a post and a keywords field under the keyword matcher alone
    deleting        \* the delete_scrape handler in progress: its scrape and the
                    \* Result rows its DELETE of line 1226 has removed, uncommitted

vars == <<uniqIndex, OPENAI_API_KEY, serviceUp, hasPlan, ghlOk, scrape, results, usage,
          lock, run, exit, runs, aiCalls, responded, probe, deleting>>

\* what no step of run_scrape changes
config == <<uniqIndex, OPENAI_API_KEY, serviceUp, hasPlan, ghlOk, probe, deleting>>
\* what no handler changes
world == <<uniqIndex, OPENAI_API_KEY, serviceUp, hasPlan, ghlOk, probe>>

Idle ==
    [pc |-> "idle", scrape_id |-> 0, srcs |-> <<>>, todo |-> <<>>,
     pending |-> {}, flushed |-> {}, loaded |-> FALSE, ai_posts_count |-> 0,
     posts_processed_count |-> 0, dirty |-> {}, results_count |-> 0,
     sent |-> 0, quotaHit |-> {}, srcFailed |-> FALSE,
     notified |-> {}, ghl_calls |-> 0, ghl_failed |-> {}, inflight |-> 0]

\* variant of lines 607-619: every row is tagged with the id of the first post
NewResult_WrongPost(w, r, p, d) ==
    [id |-> w, scrape_id |-> r.scrape_id, reddit_post_id |-> Post(1).id,
     title |-> IF Post(p).title = NoText THEN <<>> ELSE Post(p).title,
     ai_score |-> d.ai_score, ai_reasoning |-> d.ai_reasoning,
     is_hidden |-> FALSE]
\* Result(...) of lines 607-619. id stands for the primary key the INSERT draws:
\* a thread inserts a (scrape, post) pair at most once, its later runs find the
\* committed row at line 586
NewResult(w, r, p, d) ==
    [id |-> w, scrape_id |-> r.scrape_id, reddit_post_id |-> Post(p).id,
     title |-> IF Post(p).title = NoText THEN <<>> ELSE Post(p).title,
     ai_score |-> d.ai_score, ai_reasoning |-> d.ai_reasoning,
     is_hidden |-> FALSE]

SameKey(x, y) ==
    x.scrape_id = y.scrape_id /\ x.reddit_post_id = y.reddit_post_id

\* variant of line 586: the filter on scrape_id compares with the post id
Dedupe_WrongColumn(rows, j, pid) ==
    \E x \in rows : x.scrape_id = pid /\ x.reddit_post_id = pid
\* line 586: Result.query.filter_by(scrape_id, reddit_post_id).first()
Dedupe(rows, j, pid) ==
    \E x \in rows : x.scrape_id = j /\ x.reddit_post_id = pid

\* the INSERTs of a flush violate uniq_result_scrape_post
FlushConflict(w) ==
    uniqIndex /\ \E x \in run[w].pending : \E y \in results : SameKey(x, y)

\* the INSERTs of a flush violate the foreign key of Result.scrape_id (line 97):
\* the Scrape row has been deleted
ForeignKeyViolation(w) ==
    \E x \in run[w].pending : ~scrape[x.scrape_id].exists

\* a flush raises IntegrityError
FlushFails(w) == FlushConflict(w) \/ ForeignKeyViolation(w)

\* a flush that has statements to send needs the UsageMonth row lock
CanFlush(w) == run[w].pending # {} => lock \in {"free", w}

\* a Scrape row (lines 81-93) as create_scrape stores it: two subreddits, two
\* keywords, the default limit, no guidance, active. exists is false once the row
\* has been deleted
NewScrape(ai) ==
    [subreddits |-> "s1,s2", keywords |-> "hi,job", limit |-> 50,
     ai_guidance |-> "", ai_enabled |-> ai, is_active |-> TRUE, last_run |-> 0,
     exists |-> TRUE]

\* no delete_scrape handler is in progress
NoDelete == [scrape_id |-> 0, doomed |-> {}]

\* no post is under the matcher alone
NoProbe ==
    [title |-> NoText, selftext |-> NoText, keywords |-> <<>>, found |-> <<>>,
     step |-> "off"]

Init ==
    /\ probe = NoProbe
    /\ uniqIndex \in BOOLEAN
    /\ OPENAI_API_KEY \in BOOLEAN
    /\ serviceUp \in {u \in BOOLEAN : u => OPENAI_API_KEY}
    /\ hasPlan \in BOOLEAN
    /\ ghlOk \in {g \in BOOLEAN : g => (serviceUp /\ hasPlan)}
    /\ \E e \in BOOLEAN :
          scrape = [j \in ScrapeIds |-> NewScrape(j = 1 => e)]
    /\ results = {}
    /\ usage \in {[exists |-> FALSE, ai_posts_count |-> 0,
                   posts_processed_count |-> 0]}
            \cup {[exists |-> TRUE, ai_posts_count |-> c,
                   posts_processed_count |-> c] : c \in {Quota - 1}}
    /\ lock = "free"
    /\ run = [w \in Workers |-> Idle]
    /\ exit = [how |-> "none", cause |-> "", lost |-> 0]
    /\ runs = 0
    /\ aiCalls = usage.ai_posts_count
    /\ responded = TRUE
    /\ deleting = NoDelete

\* lines 571-574: the listings of the subreddits still to read are fetched up to
\* the first one that yields a post
RECURSIVE NextListing(_)
NextListing(srcs) ==
    IF srcs = <<>> THEN [srcs |-> <<>>, todo |-> <<>>]
    ELSE IF Listing(Head(srcs)) = <<>> THEN NextListing(Tail(srcs))
    ELSE [srcs |-> Tail(srcs), todo |-> Listing(Head(srcs))]

\* variant of the loop: the iteration does not move past its post
Advance_Stuck(r) == r
\* the session's loop position once the post at the head of todo is dealt with
Advance(r) ==
    IF Tail(r.todo) # <<>>
    THEN [r EXCEPT !.todo = Tail(r.todo)]
    ELSE [r EXCEPT !.todo = NextListing(r.srcs).todo,
                   !.srcs = NextListing(r.srcs).srcs]

\* variant of line 563: the active flag is not consulted
Runnable_IgnoresActive(s) == s.exists
\* line 563, negated: the scrape exists and is active
Runnable(s) == s.exists /\ s.is_active

\* run_scrape lines 560-574: the scrape exists and is active; the first listing
\* is fetched
StartRun(w, j) ==
    /\ run[w].pc = "idle"
    /\ runs < MaxRuns
    /\ Runnable(scrape[j])
    /\ run' = [run EXCEPT ![w] =
                 [Idle EXCEPT !.pc = "running", !.scrape_id = j,
                              !.todo = NextListing(subreddit_list(j)).todo,
                              !.srcs = NextListing(subreddit_list(j)).srcs]]
    /\ runs' = runs + 1
    \* run_scrape_now, tasks_run_all: the handler calls run_scrape and answers
    \* after it has returned
    /\ responded' = IF w = "request" THEN FALSE ELSE responded
    /\ UNCHANGED <<config, scrape, results, usage, lock, exit, aiCalls>>

\* lines 633-635: the listing raises instead of yielding the post at the head of
\* todo (the fetch fails, or a later page of it does); the rest of this
\* subreddit is skipped
SourceError(w) ==
    /\ run[w].pc = "running"
    /\ run[w].todo # <<>>
    /\ run[w].inflight = 0
    /\ run' = [run EXCEPT ![w].todo = NextListing(run[w].srcs).todo,
                          ![w].srcs = NextListing(run[w].srcs).srcs,
                          ![w].srcFailed = TRUE]
    /\ UNCHANGED <<config, scrape, results, usage, lock, exit, runs, aiCalls,
                   responded>>

\* An IntegrityError raised by a flush leaves the session unusable: every later
\* query of the run raises, each remaining source is skipped by lines 633-635,
\* the commit of line 638 raises and line 642 rolls everything back. The same
\* rollback follows the StaleDataError of the commit's UPDATE of a Scrape row
\* that has been deleted.
Abort(w) ==
    /\ run' = [run EXCEPT ![w] = Idle]
    /\ exit' = [how |-> "error",
                cause |-> IF FlushFails(w) THEN "IntegrityError"
                          ELSE "StaleDataError",
                lost |-> Cardinality({x \in run[w].pending \cup run[w].flushed :
                                        ~\E y \in results : SameKey(x, y)})]
    /\ lock' = IF lock = w THEN "free" ELSE lock
    /\ responded' = IF w = "request" THEN TRUE ELSE responded
    /\ UNCHANGED <<config, scrape, results, usage, runs, aiCalls>>

\* variant of line 601: the count is raised whether or not the post was sent
CountAfter_Always(count, called) == count + 1
\* line 601: usage.ai_posts_count += 1, reached only after the call of line 600
CountAfter(count, called) == IF called THEN count + 1 ELSE count

\* lines 575-631: one iteration of the loop over the posts of a listing
ProcessPost(w) ==
    LET r == run[w]
        j == r.scrape_id
        p == Head(r.todo)
        kws == found(p, keyword_list(j))
    IN
    /\ r.pc = "running"
    /\ r.todo # <<>>
    /\ IF kws = <<>>
       THEN /\ run' = [run EXCEPT ![w] = Advance(r)]
            /\ UNCHANGED <<config, scrape, results, usage, lock, exit, runs,
                           aiCalls, responded>>
       ELSE
        /\ CanFlush(w)
        /\ IF FlushFails(w)
           THEN Abort(w)
           ELSE
            LET flushed1 == r.flushed \cup r.pending
                lock1 == IF r.pending # {} THEN w ELSE lock
            IN
            IF Dedupe(results \cup flushed1, j, Post(p).id)
            THEN /\ run' = [run EXCEPT ![w] =
                              [Advance(r) EXCEPT !.pending = {},
                                                 !.flushed = flushed1]]
                 /\ lock' = lock1
                 /\ UNCHANGED <<config, scrape, results, usage, exit, runs,
                                aiCalls, responded>>
            ELSE IF ~r.loaded /\ ~usage.exists /\ ~scrape[j].exists
            \* the commit of line 211 expires the session's objects and the Scrape
            \* row, re-read at line 595, is gone: ObjectDeletedError, in this
            \* source and at scrape.limit in every source that follows
            THEN /\ run' = [run EXCEPT ![w] =
                              [r EXCEPT !.todo = <<>>, !.srcs = <<>>,
                                        !.srcFailed = TRUE, !.loaded = TRUE,
                                        !.posts_processed_count = 1,
                                        !.dirty = {"processed"}]]
                 /\ usage' = [exists |-> TRUE, ai_posts_count |-> 0,
                              posts_processed_count |-> 0]
                 /\ UNCHANGED <<config, scrape, results, lock, exit, runs,
                                aiCalls, responded>>
            ELSE
             \E resp \in RunResponses(serviceUp), o \in GhlOutcomes :
              LET create == ~r.loaded /\ ~usage.exists
                  count == IF r.loaded THEN r.ai_posts_count
                           ELSE usage.ai_posts_count
                  processed == IF r.loaded THEN r.posts_processed_count
                               ELSE usage.posts_processed_count
                  d == AiDecision(scrape[j].ai_enabled, hasPlan, count,
                                  OPENAI_API_KEY, resp)
                  n == Notify(scrape[j].ai_enabled, d.ai_score, o)
              IN
              \* an outcome is drawn only for a send_to_ghl call that is made
              /\ o \in (IF n.called THEN RunOutcomes(ghlOk)
                        ELSE {[key |-> FALSE, kind |-> "none"]})
              /\ run' = [run EXCEPT ![w] = [Advance(r) EXCEPT
                    !.flushed = IF create THEN {} ELSE flushed1,
                    !.pending = {NewResult(w, r, p, d)},
                    !.loaded = TRUE,
                    !.posts_processed_count = processed + 1,
                    !.ai_posts_count = CountAfter(count, d.called),
                    !.dirty = r.dirty \cup {"processed"}
                                \cup (IF d.called THEN {"ai"} ELSE {}),
                    !.results_count = r.results_count + 1,
                    !.sent = IF d.called THEN r.sent + 1 ELSE r.sent,
                    !.quotaHit =
                        IF d.ai_reasoning = "AI quota exceeded"
                        THEN r.quotaHit \cup {p} ELSE r.quotaHit,
                    !.notified =
                        IF n.called THEN r.notified \cup {p} ELSE r.notified,
                    !.ghl_calls = r.ghl_calls + n.calls,
                    !.ghl_failed =
                        IF n.called /\ ~n.ok
                        THEN r.ghl_failed \cup {p} ELSE r.ghl_failed,
                    !.inflight = 0]]
              \* get_or_create_usage_month: a missing row is added and committed
              /\ usage' = IF create
                          THEN [exists |-> TRUE, ai_posts_count |-> 0,
                                posts_processed_count |-> 0]
                          ELSE usage
              /\ results' = IF create THEN results \cup flushed1 ELSE results
              /\ lock' = IF create THEN (IF lock1 = w THEN "free" ELSE lock1)
                         ELSE lock1
              /\ aiCalls' = IF d.called THEN aiCalls + 1 ELSE aiCalls
              /\ UNCHANGED <<config, scrape, exit, runs, responded>>

\* the iteration at the head of todo reaches the call of line 600: the post
\* matches, has no Result yet, and the scrape, the plan and the quota allow scoring
WillScore(w) ==
    LET r == run[w]
        j == r.scrape_id
        p == Head(r.todo)
        count == IF r.loaded THEN r.ai_posts_count ELSE usage.ai_posts_count
    IN
    /\ r.pc = "running"
    /\ r.todo # <<>>
    /\ found(p, keyword_list(j)) # <<>>
    /\ ~Dedupe(results \cup r.flushed \cup r.pending, j, Post(p).id)
    /\ \E resp \in RunResponses(serviceUp) :
          AiDecision(scrape[j].ai_enabled, hasPlan, count, OPENAI_API_KEY,
                     resp).called

\* line 600, entry: ai_score_post is called in the thread of the run, which waits
\* for it; the call is made from the loop, so none is in flight when it starts
ScoreCall(w) ==
    /\ WillScore(w)
    /\ run[w].inflight = 0
    /\ run' = [run EXCEPT ![w].inflight = 1]
    /\ UNCHANGED <<config, scrape, results, usage, lock, exit, runs, aiCalls,
                   responded>>

\* line 600, return: the iteration goes on with the score and the reason
ScoreReturn(w) ==
    /\ run[w].inflight = 1
    /\ ProcessPost(w)

\* an iteration that makes no scoring call
NoScoreIteration(w) ==
    /\ ~WillScore(w)
    /\ run[w].inflight = 0
    /\ ProcessPost(w)

\* variant of line 637: the run also pauses the scrape
SetLastRun_Pauses(s, now) == [s EXCEPT !.last_run = now, !.is_active = FALSE]
\* line 637: scrape.last_run = datetime.utcnow()
SetLastRun(s, now) == [s EXCEPT !.last_run = now]

\* lines 637-639: last_run is set and the session is committed
Finish(w) ==
    LET r == run[w]
        j == r.scrape_id
    IN
    /\ r.pc = "running"
    /\ r.todo = <<>>
    /\ CanFlush(w)
    /\ IF FlushFails(w) \/ ~scrape[j].exists
       THEN Abort(w)
       ELSE
        /\ results' = results \cup r.flushed \cup r.pending
        /\ usage' = [usage EXCEPT
              !.ai_posts_count =
                  IF "ai" \in r.dirty THEN r.ai_posts_count ELSE @,
              !.posts_processed_count =
                  IF "processed" \in r.dirty THEN r.posts_processed_count ELSE @]
        \* datetime.utcnow(): the logical time is the number of runs started
        /\ scrape' = [scrape EXCEPT ![j] = SetLastRun(@, runs)]
        /\ lock' = IF lock = w \/ r.pending # {} THEN "free" ELSE lock
        /\ run' = [run EXCEPT ![w] = Idle]
        /\ exit' = [how |-> "done", cause |-> "", lost |-> 0]
        /\ responded' = IF w = "request" THEN TRUE ELSE responded
        /\ UNCHANGED <<config, runs, aiCalls>>

Next ==
    \E w \in Workers :
        \/ \E j \in ScrapeIds : StartRun(w, j)
        \/ SourceError(w)
        \/ ProcessPost(w)
        \/ Finish(w)

Spec == Init /\ [][Next]_vars

\* one thread only: no two run_scrape calls overlap
NextSerial ==
    \/ \E j \in ScrapeIds : StartRun("scheduler", j)
    \/ SourceError("scheduler")
    \/ ProcessPost("scheduler")
    \/ Finish("scheduler")

SpecSerial == Init /\ [][NextSerial]_vars

\* one thread, at the grain of the scoring calls: the call of line 600 and its
\* return are separate steps
NextCalls ==
    \/ \E j \in ScrapeIds : StartRun("scheduler", j)
    \/ SourceError("scheduler")
    \/ NoScoreIteration("scheduler")
    \/ ScoreCall("scheduler")
    \/ ScoreReturn("scheduler")
    \/ Finish("scheduler")

SpecCalls == Init /\ [][NextCalls]_vars

\* ------------------------------------------------------------- matcher alone
\* the characters, texts and keyword pieces the matcher is applied to
Chars == {"a", "A", "b"}
Texts == UNION {[1..n -> Chars] : n \in 0..MaxText}
Pieces == {<<" ">>, <<"a">>, <<"A", "b">>, <<" ", "B", " ">>, <<"a", " ", "b">>}
KeywordFields == UNION {[1..n -> Pieces] : n \in 0..MaxKeywords}

\* the database untouched, and one post with one keywords field to match
InitMatch ==
    /\ probe \in [title : Texts \cup {NoText}, selftext : Texts \cup {NoText},
                   keywords : KeywordFields, found : {<<>>}, step : {"new"}]
    /\ uniqIndex = TRUE /\ OPENAI_API_KEY = TRUE /\ serviceUp = TRUE
    /\ hasPlan = TRUE /\ ghlOk = TRUE
    /\ scrape = [j \in ScrapeIds |-> NewScrape(TRUE)]
    /\ results = {}
    /\ usage = [exists |-> FALSE, ai_posts_count |-> 0, posts_processed_count |-> 0]
    /\ lock = "free"
    /\ run = [w \in Workers |-> Idle]
    /\ exit = [how |-> "none", cause |-> "", lost |-> 0]
    /\ runs = 0
    /\ aiCalls = 0
    /\ responded = TRUE
    /\ deleting = NoDelete

\* lines 568 and 575-578: the keywords field is parsed and the post is matched
Match ==
    /\ probe.step = "new"
    /\ probe' = [probe EXCEPT
                   !.found = Found(TextAll(probe.title, probe.selftext),
                                   ParseKeywords(probe.keywords)),
                   !.step = "matched"]
    /\ UNCHANGED <<uniqIndex, OPENAI_API_KEY, serviceUp, hasPlan, ghlOk, scrape,
                   results, usage, lock, run, exit, runs, aiCalls, responded,
                   deleting>>

\* lines 579-580: a post with nothing found is skipped, any other goes on to
\* become a Result
Filter ==
    /\ probe.step = "matched"
    /\ probe' = [probe EXCEPT
                   !.step = IF probe.found = <<>> THEN "skipped" ELSE "kept"]
    /\ UNCHANGED <<uniqIndex, OPENAI_API_KEY, serviceUp, hasPlan, ghlOk, scrape,
                   results, usage, lock, run, exit, runs, aiCalls, responded,
                   deleting>>

NextMatch == Match \/ Filter

SpecMatch == InitMatch /\ [][NextMatch]_vars

\* a thread inside run_scrape keeps executing: the loop body and the commit are
\* taken when they can be (each external call returns, fails or times out)
\* (explored for an account with a plan, the credentials set and the services up)
InitFair ==
    /\ Init
    /\ OPENAI_API_KEY /\ serviceUp /\ hasPlan /\ ghlOk
    /\ \A j \in ScrapeIds : scrape[j].ai_enabled
SpecFair ==
    /\ InitFair
    /\ [][Next]_vars
    /\ \A w \in Workers : WF_vars(ProcessPost(w) \/ Finish(w))

\* ------------------------------------------------------------- handlers
\* the run_scrape call returns at line 564: the scrape is missing or paused
SkipRun(w, j) ==
    /\ run[w].pc = "idle"
    /\ runs < MaxRuns
    /\ ~Runnable(scrape[j])
    /\ runs' = runs + 1
    /\ UNCHANGED <<config, scrape, results, usage, lock, run, exit, aiCalls,
                   responded>>

\* toggle_scrape, lines 1211-1217
toggle_scrape(j) ==
    /\ deleting = NoDelete
    /\ scrape[j].exists
    /\ scrape' = [scrape EXCEPT ![j].is_active = ~@]
    /\ UNCHANGED <<world, deleting, results, usage, lock, run, exit, runs,
                   aiCalls, responded>>

\* variant of lines 1149 and 1161: hiding also clears the score
SetHidden_ClearsScore(x, h) == [x EXCEPT !.is_hidden = h, !.ai_score = None]
\* r.is_hidden = True / False
SetHidden(x, h) == [x EXCEPT !.is_hidden = h]

\* hide_result, lines 1143-1151
hide_result(x) ==
    /\ deleting = NoDelete
    /\ x \in results
    /\ results' = (results \ {x}) \cup {SetHidden(x, TRUE)}
    /\ UNCHANGED <<world, deleting, scrape, usage, lock, run, exit, runs,
                   aiCalls, responded>>

\* unhide_result, lines 1155-1163
unhide_result(x) ==
    /\ deleting = NoDelete
    /\ x \in results
    /\ results' = (results \ {x}) \cup {SetHidden(x, FALSE)}
    /\ UNCHANGED <<world, deleting, scrape, usage, lock, run, exit, runs,
                   aiCalls, responded>>

\* hide_below, lines 1167-1180, with the threshold of the form
hide_below(j, threshold) ==
    /\ deleting = NoDelete
    /\ scrape[j].exists
    /\ results' = {IF x.scrape_id = j /\ (x.ai_score = None
                                            \/ x.ai_score[1] < threshold)
                   THEN SetHidden(x, TRUE) ELSE x : x \in results}
    /\ UNCHANGED <<world, deleting, scrape, usage, lock, run, exit, runs,
                   aiCalls, responded>>

\* delete_scrape, lines 1221-1226: the scrape is found and the DELETE of its
\* Result rows is executed; it removes the rows committed so far
delete_results(j) ==
    /\ deleting = NoDelete
    /\ scrape[j].exists
    /\ deleting' = [scrape_id |-> j,
                    doomed |-> {x \in results : x.scrape_id = j}]
    /\ UNCHANGED <<world, scrape, results, usage, lock, run, exit, runs, aiCalls,
                   responded>>

\* variant of the foreign key: no Result row is seen to reference the scrape
References_None(rows, j) == FALSE
\* the foreign key of Result.scrape_id (line 97): a Result row references scrape j
References(rows, j) == \E x \in rows : x.scrape_id = j

\* delete_scrape, line 1227: the DELETE of the Scrape row and the commit. The
\* DELETE waits for a session that has inserted a Result of the scrape and not
\* yet committed; it raises IntegrityError, and nothing is deleted, when a Result
\* of the scrape was committed after the DELETE of line 1226
delete_scrape(j) ==
    /\ deleting.scrape_id = j
    /\ \A w \in Workers :
          (run[w].pc = "running" /\ run[w].scrape_id = j) => run[w].flushed = {}
    /\ deleting' = NoDelete
    /\ IF References(results \ deleting.doomed, j)
       THEN UNCHANGED <<scrape, results>>
       ELSE /\ results' = results \ deleting.doomed
            /\ scrape' = [scrape EXCEPT ![j].exists = FALSE]
    /\ UNCHANGED <<world, usage, lock, run, exit, runs, aiCalls, responded>>

\* the thresholds hide_below is called with: the default, and one above every score
Thresholds == {AI_MIN_SCORE, AI_MIN_SCORE + AI_MAX_CONCURRENCY}

\* the pipeline in the scheduler thread and the handlers in a request thread
\* (explored for an account with a plan, the credentials set and the services up)
InitManage ==
    /\ Init
    /\ uniqIndex /\ OPENAI_API_KEY /\ serviceUp /\ hasPlan /\ ghlOk
NextManage ==
    \/ \E j \in ScrapeIds : StartRun("scheduler", j)
    \/ SourceError("scheduler")
    \/ ProcessPost("scheduler")
    \/ Finish("scheduler")
    \/ \E j \in ScrapeIds : SkipRun("scheduler", j)
    \/ \E j \in ScrapeIds : deleting = NoDelete /\ SkipRun("request", j)
    \/ \E j \in ScrapeIds : toggle_scrape(j)
    \/ \E x \in results : hide_result(x)
    \/ \E x \in results : unhide_result(x)
    \/ \E j \in ScrapeIds, t \in Thresholds : hide_below(j, t)
    \/ \E j \in ScrapeIds : delete_results(j)
    \/ \E j \in ScrapeIds : delete_scrape(j)

SpecManage == InitManage /\ [][NextManage]_vars

\* ------------------------------------------------------------- claims

\* per scrape, the posts of its listings that match one of its keywords
MatchedPosts ==
    [j \in ScrapeIds |->
        {p \in UNION {{Listing(subreddit_list(j)[i])[k] :
                          k \in 1..Len(Listing(subreddit_list(j)[i]))} :
                      i \in 1..Len(subreddit_list(j))} :
            found(p, keyword_list(j)) # <<>>}]
Matched(j) == IF j \in ScrapeIds THEN MatchedPosts[j] ELSE {}
\* every matched post of the source has a Result of scrape j among rows
AllStoredIn(rows, j) == \A p \in Matched(j) : Dedupe(rows, j, Post(p).id)
AllStored(j) == AllStoredIn(results, j)
\* the rows a running session has added
Rows(w) == run[w].pending \cup run[w].flushed
\* the ledger count the session of w works with
Count(w) ==
    IF run[w].loaded THEN run[w].ai_posts_count ELSE usage.ai_posts_count
\* the step is one of thread w
Step(w) == run'[w] # run[w]
\* thread w's run_scrape call returns through line 639
Done(w) == run[w].pc = "running" /\ run'[w].pc = "idle" /\ exit'.how = "done"

\* C1: in every reachable state the stored Results hold at most one row for each
\* (scrape id, reddit post id) pair.
C1_UniqueResults == \A x, y \in results : SameKey(x, y) => x = y

\* C2: a run whose insert hits the uniqueness violation does not end in error,
\* and none of the other Results it produced is lost.
C2_DuplicateSkipped ==
    exit.cause = "IntegrityError" => (exit.how = "done" /\ exit.lost = 0)

\* C3: a run that completes with every source read leaves a Result stored for
\* every matched post of the source; from then on a run of the same scrape adds
\* no Result: its results_count stays 0 and none of its steps changes the stored
\* Results.
C3_RerunStoresNothing ==
    [][\A w \in Workers :
         /\ (Done(w) /\ ~run[w].srcFailed)
                => AllStoredIn(results', run[w].scrape_id)
         /\ (/\ run[w].pc = "running"
             /\ AllStored(run[w].scrape_id)
             /\ run[w].results_count = 0)
            => (/\ run'[w].results_count = 0
                /\ Step(w) => results' = results)]_vars
\* a second run has read every source and is about to commit, having added nothing
C3_Witness ==
    \E w \in Workers :
        /\ run[w].pc = "running"
        /\ run[w].todo = <<>>
        /\ ~run[w].srcFailed
        /\ AllStored(run[w].scrape_id)
        /\ run[w].results_count = 0

\* C4: the ledger's ai_posts_count, as stored and as every running session holds
\* it, never exceeds the quota; and every post sent to the scoring client was
\* sent from a session whose count was below the quota at that very step.
C4_QuotaBound ==
    /\ [](/\ usage.ai_posts_count <= Quota
          /\ \A w \in Workers : run[w].ai_posts_count <= Quota)
    /\ [][\A w \in Workers :
            run'[w].sent > run[w].sent
                => (Count(w) < Quota /\ run'[w].ai_posts_count = Count(w) + 1)]_vars
\* the stored count has reached the quota and a run has been refused scoring
C4_Witness ==
    /\ usage.ai_posts_count = Quota
    /\ \E w \in Workers : run[w].quotaHit # {}

\* C5: the posts sent to the scoring client in the month exceed the quota by at
\* most (number of concurrent runs - 1).
C5_BoundedOvershoot == aiCalls <= Quota + (Cardinality(Workers) - 1)

\* C6: a single AI-enabled run that finds M new matched posts with r < M units
\* of quota left raises the stored ai_posts_count by at least r and at most
\* r + (AI_MAX_CONCURRENCY - 1), and stores every post it did not send to scoring
\* with ai_score = NULL.
C6_SingleRunQuota ==
    [][\A w \in Workers :
         LET j == run[w].scrape_id
             r == Quota - usage.ai_posts_count
             M == run[w].results_count
             delta == usage'.ai_posts_count - usage.ai_posts_count
         IN  (Done(w) /\ scrape[j].ai_enabled /\ hasPlan /\ r < M)
             => /\ delta >= r
                /\ delta <= r + (AI_MAX_CONCURRENCY - 1)
                /\ Rows(w) \subseteq results'
                /\ Cardinality({x \in Rows(w) : x.ai_score = None}) = M - delta
                /\ \A x \in Rows(w) :
                      x.reddit_post_id \in {Post(p).id : p \in run[w].quotaHit}
                          => x.ai_score = None]_vars
\* a single run is about to commit more new posts than it had quota for
C6_Witness ==
    /\ run["scheduler"].pc = "running"
    /\ run["scheduler"].todo = <<>>
    /\ scrape[run["scheduler"].scrape_id].ai_enabled
    /\ hasPlan
    /\ Quota - usage.ai_posts_count > 0
    /\ Quota - usage.ai_posts_count < run["scheduler"].results_count

\* C7: running out of quota does not abort the run: the step that is refused
\* scoring leaves the run running, the only abort is the uniqueness violation, and
\* a run that completes stores every post refused for quota with ai_score = NULL
\* and the quota-exceeded reason, and sets last_run.
C7_QuotaExhaustionDegrades ==
    [][\A w \in Workers :
         LET j == run[w].scrape_id IN
         /\ (run'[w].quotaHit \ run[w].quotaHit # {})
                => /\ run'[w].pc = "running"
                   /\ exit' = exit
                   /\ \A x \in run'[w].pending :
                         /\ x.ai_score = None
                         /\ x.ai_reasoning = "AI quota exceeded"
         /\ (Step(w) /\ run[w].quotaHit # {} /\ exit'.how = "error" /\ exit' # exit)
                => FlushConflict(w)
         /\ (Done(w) /\ run[w].quotaHit # {})
                => /\ \A p \in run[w].quotaHit :
                        \E x \in results' :
                            /\ x.id = w
                            /\ x.scrape_id = j
                            /\ x.reddit_post_id = Post(p).id
                            /\ x.ai_score = None
                            /\ x.ai_reasoning = "AI quota exceeded"
                   /\ scrape'[j].last_run = runs
                   /\ scrape'[j].last_run > 0]_vars
\* a thread has stored, for one scrape, a scored post and a post refused for quota
C7_Witness ==
    \E x, y \in results :
        /\ x.id = y.id
        /\ x.scrape_id = y.scrape_id
        /\ x.ai_reasoning = "AI quota exceeded"
        /\ y.ai_score # None
        /\ scrape[x.scrape_id].last_run > 0

\* C8: a run of a scrape with ai_enabled false never calls the scoring client,
\* never changes ai_posts_count, and every Result it stores has ai_score = NULL
\* and the reason "AI disabled for this scrape".
C8_AiDisabled ==
    /\ [](/\ \A w \in Workers :
               (run[w].pc = "running" /\ ~scrape[run[w].scrape_id].ai_enabled)
                  => /\ run[w].sent = 0
                     /\ "ai" \notin run[w].dirty
                     /\ \A x \in Rows(w) :
                           /\ x.ai_score = None
                           /\ x.ai_reasoning = "AI disabled for this scrape"
          /\ \A x \in results :
               ~scrape[x.scrape_id].ai_enabled
                  => /\ x.ai_score = None
                     /\ x.ai_reasoning = "AI disabled for this scrape")
    /\ [][\A w \in Workers :
            (Step(w) /\ run[w].pc = "running"
                     /\ ~scrape[run[w].scrape_id].ai_enabled)
                => /\ aiCalls' = aiCalls
                   /\ usage'.ai_posts_count = usage.ai_posts_count]_vars
\* a Result of a scrape with AI disabled is stored
C8_Witness ==
    \E x \in results : ~scrape[x.scrape_id].ai_enabled

\* C9: when the credential is missing or the call to the service fails, the
\* scoring client returns (NULL, reason) and the post's Result is stored with
\* ai_score = NULL.
C9_FailureStoredAsNull ==
    \A x \in results :
        x.ai_reasoning \in {"AI unavailable", "AI disabled (missing OPENAI_API_KEY)"}
            => x.ai_score = None

\* C10: every stored Result has ai_score NULL or an integer in 1..10.
C10_ScoreRange ==
    \A x \in results : x.ai_score \in {None} \cup {Some(n) : n \in 1..10}

\* C11: no two run_scrape calls of one scrape are in progress at the same time.
C11_NoOverlappingRuns ==
    \A w1, w2 \in Workers :
        (/\ run[w1].pc = "running"
         /\ run[w2].pc = "running"
         /\ run[w1].scrape_id = run[w2].scrape_id) => w1 = w2

\* thread w's run_scrape call returns through the rollback of line 642
Failed(w) == run[w].pc = "running" /\ run'[w].pc = "idle" /\ exit'.how = "error"

\* C12: a run that ends on an exception returns to its caller, and the failure is
\* recorded on the stored scrape: the row is not what it was before the failure.
C12_ErrorObservable ==
    [][\A w \in Workers :
         Failed(w) => scrape'[run[w].scrape_id] # scrape[run[w].scrape_id]]_vars

\* C13: every run that has started finishes, as done (line 639) or as error (line
\* 642), and a run that finishes as done has set the scrape's last_run.
C13_RunsTerminate ==
    /\ \A w \in Workers : (run[w].pc = "running") ~> (run[w].pc = "idle")
    /\ [][\A w \in Workers :
            /\ (run[w].pc = "running" /\ run'[w].pc = "idle")
                  => exit'.how \in {"done", "error"}
            /\ Done(w) => /\ scrape'[run[w].scrape_id].last_run = runs
                          /\ scrape'[run[w].scrape_id].last_run > 0]_vars
\* every run that could start has returned, the last one as done
C13_Witness ==
    /\ runs = MaxRuns
    /\ \A w \in Workers : run[w].pc = "idle"
    /\ exit.how = "done"
    /\ \E j \in ScrapeIds : scrape[j].last_run = runs

\* C14: no step taken while a source is being processed, whether it fails (the
\* fetch raises, a statement of the loop body raises) or not, ends the run or
\* drops a row the run has added; and a run in which a source failed, once it
\* completes, has persisted the rows of its other sources and set last_run.
C14_SourceFailureTolerated ==
    [][\A w \in Workers :
         /\ (Step(w) /\ run[w].pc = "running" /\ run[w].todo # <<>>)
               => /\ run'[w].pc = "running"
                  /\ Rows(w) \subseteq (run'[w].pending \cup run'[w].flushed
                                            \cup results')
         /\ (Done(w) /\ run[w].srcFailed)
               => /\ Rows(w) \subseteq results'
                  /\ scrape'[run[w].scrape_id].last_run = runs]_vars

\* the Result qualifies for the CRM: AI enabled on its scrape, score present and
\* at least AI_MIN_SCORE
Qualifies(x) ==
    /\ scrape[x.scrape_id].ai_enabled
    /\ x.ai_score # None
    /\ x.ai_score[1] >= AI_MIN_SCORE

\* C15: when a run returns (done or error), every post it called the CRM notifier
\* for is stored as a Result of its scrape that qualifies, and every Result the
\* run stored that qualifies had the notifier called.
C15_CrmIffPersisted ==
    [][\A w \in Workers :
         (Done(w) \/ Failed(w)) =>
            /\ \A p \in run[w].notified :
                  \E x \in results' :
                      /\ x.scrape_id = run[w].scrape_id
                      /\ x.reddit_post_id = Post(p).id
                      /\ Qualifies(x)
            /\ \A x \in Rows(w) \cap results' :
                  Qualifies(x)
                      => \E p \in run[w].notified : Post(p).id = x.reddit_post_id]_vars

\* C16: a failed CRM notification is one call, not repeated; the step leaves the
\* run running with the post's Result added and the remaining posts and sources
\* still to process; a run with a failed notification aborts only on the
\* uniqueness violation, and when it completes the Results of the failed
\* notifications are stored.
C16_CrmFailureTolerated ==
    [][\A w \in Workers :
         /\ (run'[w].ghl_failed \ run[w].ghl_failed # {})
               => /\ run'[w].pc = "running"
                  /\ exit' = exit
                  /\ run'[w].ghl_calls = run[w].ghl_calls + 1
                  /\ \A p \in run'[w].ghl_failed \ run[w].ghl_failed :
                        \E x \in run'[w].pending : x.reddit_post_id = Post(p).id
                  /\ run'[w].todo = Advance(run[w]).todo
                  /\ run'[w].srcs = Advance(run[w]).srcs
         /\ (Failed(w) /\ run[w].ghl_failed # {}) => FlushConflict(w)
         /\ (Done(w) /\ run[w].ghl_failed # {})
               => \A p \in run[w].ghl_failed :
                     \E x \in results' :
                         /\ x.id = w
                         /\ x.scrape_id = run[w].scrape_id
                         /\ x.reddit_post_id = Post(p).id]_vars
\* a run whose notifications all failed has completed and stored a qualifying
\* Result
C16_Witness ==
    /\ ~ghlOk
    /\ exit.how = "done"
    /\ \E x \in results : Qualifies(x)

\* C17: the response to a trigger does not wait for the run: when the run a
\* request triggered returns, the response has already been given.
C17_TriggerNonBlocking ==
    [][(run["request"].pc = "running" /\ run'["request"].pc = "idle")
          => responded]_vars

\* the reasons of a Result stored without a score
Degraded ==
    {"AI disabled for this scrape", "No active subscription", "AI quota exceeded"}

\* C18: a run that reads every source and completes adds exactly one Result for
\* each fetched post that matches a keyword and had no Result of the scrape, and
\* nothing else; each is tagged with its post's id and title and is either scored
\* or degraded.
C18_ExactResults ==
    [][\A w \in Workers :
         LET j == run[w].scrape_id
             New == {p \in Matched(j) : ~Dedupe(results, j, Post(p).id)}
         IN  (Done(w) /\ ~run[w].srcFailed)
             => /\ results' = results \cup Rows(w)
                /\ Rows(w) \cap results = {}
                /\ Cardinality(Rows(w)) = Cardinality(New)
                /\ run[w].results_count = Cardinality(New)
                /\ \A p \in New :
                      \E x \in Rows(w) :
                          /\ x.scrape_id = j
                          /\ x.reddit_post_id = Post(p).id
                          /\ x.title = Post(p).title
                          /\ (x.ai_score # None \/ x.ai_reasoning \in Degraded)]_vars
\* of the 3 posts fetched 2 match, and a completed run has stored exactly 2 Results
C18_Witness ==
    /\ exit.how = "done"
    /\ \E j \in ScrapeIds :
          /\ Cardinality(Matched(j)) = 2
          /\ Cardinality({x \in results : x.scrape_id = j}) = 2
          /\ Cardinality(UNION {{Listing(subreddit_list(j)[i])[k] :
                                    k \in 1..Len(Listing(subreddit_list(j)[i]))} :
                                i \in 1..Len(subreddit_list(j))}) = 3

\* the run of w has, after the post it is on, another post that it will score: a
\* matched post without a Result, with AI enabled, a plan, and quota left after
\* the call in flight
MoreToScore(w) ==
    LET r == run[w]
        j == r.scrape_id
        later == {Tail(r.todo)[k] : k \in 1..Len(Tail(r.todo))}
                    \cup UNION {{Listing(r.srcs[i])[k] :
                                    k \in 1..Len(Listing(r.srcs[i]))} :
                                i \in 1..Len(r.srcs)}
    IN  /\ scrape[j].ai_enabled
        /\ hasPlan
        /\ HasHeadroom(Count(w) + r.inflight, Quota)
        /\ \E p \in later :
              /\ found(p, keyword_list(j)) # <<>>
              /\ ~Dedupe(results \cup Rows(w), j, Post(p).id)

\* C19: while a scoring call of a run is in flight and fewer than
\* AI_MAX_CONCURRENCY are, the run can start the scoring call of another post it
\* has to score; and never more than AI_MAX_CONCURRENCY calls of a run are in
\* flight.
C19_BoundedParallelScoring ==
    \A w \in Workers :
        /\ run[w].inflight <= AI_MAX_CONCURRENCY
        /\ (/\ run[w].inflight >= 1
            /\ run[w].inflight < AI_MAX_CONCURRENCY
            /\ MoreToScore(w)) => ENABLED ScoreCall(w)

\* the two characters are the same letter, whatever their case
SameLetter(c, d) ==
    \/ c = d
    \/ {c, d} \in {{"a", "A"}, {"b", "B"}, {"h", "H"}, {"j", "J"}, {"o", "O"}}
\* keyword k occurs in text t, letter case ignored
OccursIn(k, t) ==
    \E off \in 0..(Len(t) - Len(k)) :
        \A n \in 1..Len(k) : SameLetter(k[n], t[off + n])
\* title + " " + body as given, a missing one counting as empty
RawText ==
    (IF probe.title = NoText THEN <<>> ELSE probe.title) \o <<" ">>
        \o (IF probe.selftext = NoText THEN <<>> ELSE probe.selftext)

\* C20: the matcher returns the configured keywords that occur, letter case
\* ignored, in title + " " + body, in configured order and nothing else; no
\* keywords give an empty result; a post with an empty result is skipped and only
\* a post with a match goes on to become a Result.
C20_KeywordMatcher ==
    LET kws == ParseKeywords(probe.keywords)
        f == probe.found
        inF(k) == \E i \in 1..Len(f) : f[i] = k
    IN  probe.step \in {"matched", "skipped", "kept"}
        => /\ f = SelectSeq(kws, inF)
           /\ \A i \in 1..Len(kws) : inF(kws[i]) <=> OccursIn(kws[i], RawText)
           /\ \A i \in 1..Len(kws) :
                 \E k \in 1..Len(probe.keywords) :
                     /\ Len(Strip(probe.keywords[k])) = Len(kws[i])
                     /\ \A n \in 1..Len(kws[i]) :
                           SameLetter(kws[i][n], Strip(probe.keywords[k])[n])
           /\ (kws = <<>> => f = <<>>)
           /\ (probe.step = "skipped" => f = <<>>)
           /\ (probe.step = "kept" => f # <<>>)
\* of two configured keywords one is found, in a post without a body, by a match
\* that differs in letter case
C20_Witness ==
    /\ probe.step = "kept"
    /\ probe.selftext = NoText
    /\ Len(ParseKeywords(probe.keywords)) = 2
    /\ Len(probe.found) = 1
    /\ ~Contains(probe.found[1], probe.title)

\* both threads, at the grain of the scoring calls (explored with the unique index
\* in place)
InitRace == Init /\ uniqIndex
NextRace ==
    \E w \in Workers :
        \/ \E j \in ScrapeIds : StartRun(w, j)
        \/ SourceError(w)
        \/ NoScoreIteration(w)
        \/ ScoreCall(w)
        \/ ScoreReturn(w)
        \/ Finish(w)

SpecRace == InitRace /\ [][NextRace]_vars

\* C21: the count a session holds is raised only by the step in which a scoring
\* call it had made returns, by exactly one for the post sent, and not while the
\* call is in flight nor by an iteration that sends nothing (AI disabled, no
\* plan, quota reached); a run that fails leaves the stored ai_posts_count as it
\* was, and the stored count never exceeds the number of posts sent.
C21_IncrementAfterCall ==
    [][\A w \in Workers :
         /\ (run[w].pc = "running" /\ run'[w].pc = "running")
               => /\ run'[w].sent \in {run[w].sent, run[w].sent + 1}
                  /\ Count(w)' = Count(w) + (run'[w].sent - run[w].sent)
                     \/ (~Step(w) /\ ~run[w].loaded)
                  /\ run'[w].sent > run[w].sent
                        => (run[w].inflight = 1 /\ run'[w].inflight = 0)
                  /\ run'[w].inflight > run[w].inflight
                        => (run'[w].ai_posts_count = run[w].ai_posts_count
                              /\ usage' = usage /\ aiCalls' = aiCalls)
         /\ Failed(w) => usage'.ai_posts_count = usage.ai_posts_count
         /\ usage'.ai_posts_count <= aiCalls']_vars
\* a run that has sent a post to the scoring client and raised its count
\* is about to fail on the uniqueness violation
C21_Witness ==
    \E w \in Workers :
        /\ run[w].pc = "running"
        /\ run[w].sent >= 1
        /\ run[w].ai_posts_count >= run[w].sent
        /\ run[w].inflight = 0
        /\ FlushConflict(w)

\* C25: no step lowers the stored ai_posts_count or posts_processed_count of the
\* month, and no step deletes the ledger row.
C25_LedgerMonotone ==
    [][/\ usage'.ai_posts_count >= usage.ai_posts_count
       /\ usage'.posts_processed_count >= usage.posts_processed_count
       /\ usage.exists => usage'.exists]_vars

\* C27: the Results a run has added and the ledger counts it has raised are
\* stored as soon as the iteration that produced them has ended, so that they
\* are there whatever happens to the run afterwards.
C27_PersistedPerItem ==
    \A w \in Workers :
        run[w].pc = "running"
            => /\ Rows(w) \subseteq results
               /\ run[w].loaded
                     => /\ usage.ai_posts_count >= run[w].ai_posts_count
                        /\ usage.posts_processed_count >= run[w].posts_processed_count

\* the scoring client was called for the post of Result x
Scored(x) == x.ai_reasoning \notin Degraded

\* C28: the step of a run that calls the CRM notifier for a post is the only
\* automatic notification of that (scrape, post) pair: no other run has notified
\* the same post of the same scrape.
C28_NotifiedOnce ==
    [][\A w \in Workers :
         \A p \in run'[w].notified \ run[w].notified :
             ~\E v \in Workers \ {w} :
                 /\ run[v].pc = "running"
                 /\ run[v].scrape_id = run[w].scrape_id
                 /\ p \in run[v].notified]_vars

\* C29: the step of a run that sends a post to the scoring client is the only
\* scoring of that (scrape, post) pair: no Result of the pair, stored or added by
\* another run, carries a score or a reason that came from the scoring client.
C29_ScoredOnce ==
    [][\A w \in Workers :
         run'[w].sent > run[w].sent
             => ~\E x \in results \cup UNION {Rows(v) : v \in Workers \ {w}} :
                    /\ x.scrape_id = run[w].scrape_id
                    /\ x.reddit_post_id = Post(Head(run[w].todo)).id
                    /\ Scored(x)]_vars

\* ------------------------------------------------------------- scoring client alone
\* the database untouched, and one answer of the scoring service to turn into a
\* score
InitScore ==
    /\ probe \in [key : BOOLEAN, resp : Responses, score : {None}, reason : {""},
                   step : {"new"}]
    /\ uniqIndex = TRUE /\ OPENAI_API_KEY = probe.key /\ serviceUp = probe.key
    /\ hasPlan = TRUE /\ ghlOk = TRUE
    /\ scrape = [j \in ScrapeIds |-> NewScrape(TRUE)]
    /\ results = {}
    /\ usage = [exists |-> FALSE, ai_posts_count |-> 0, posts_processed_count |-> 0]
    /\ lock = "free"
    /\ run = [w \in Workers |-> Idle]
    /\ exit = [how |-> "none", cause |-> "", lost |-> 0]
    /\ runs = 0
    /\ aiCalls = 0
    /\ responded = TRUE
    /\ deleting = NoDelete

\* line 600: ai_score_post is applied to the answer
Score ==
    /\ probe.step = "new"
    /\ probe' = [probe EXCEPT
                   !.score = ai_score_post(probe.key, probe.resp)[1],
                   !.reason = ai_score_post(probe.key, probe.resp)[2],
                   !.step = "scored"]
    /\ UNCHANGED <<uniqIndex, OPENAI_API_KEY, serviceUp, hasPlan, ghlOk, scrape,
                   results, usage, lock, run, exit, runs, aiCalls, responded,
                   deleting>>

NextScore == Score

SpecScore == InitScore /\ [][NextScore]_vars

\* the scoring client has turned a numeric answer into a score
NumericScored ==
    probe.step = "scored" /\ probe.key /\ probe.resp.kind \in {"json", "inf"}

C23_ConfigUntouched ==
    [][/\ \A j \in ScrapeIds :
            /\ [scrape'[j] EXCEPT !.last_run = scrape[j].last_run] = scrape[j]
            /\ scrape'[j].last_run # scrape[j].last_run
                  => \E w \in Workers : Done(w) /\ run[w].scrape_id = j
       /\ \A w \in Workers : Failed(w) => scrape' = scrape]_vars
\* one run has completed and set last_run, another has failed
C23_Witness ==
    /\ exit.how = "error"
    /\ \E j \in ScrapeIds :
          /\ scrape[j].last_run > 0
          /\ scrape[j] = [NewScrape(scrape[j].ai_enabled) EXCEPT
                            !.last_run = scrape[j].last_run]

\* C26: every stored Result belongs to a Scrape row that exists, in every state,
\* so that once a scrape has been deleted none of its Results is stored.
C26_NoOrphanResults ==
    \A x \in results : scrape[x.scrape_id].exists
\* a scrape has been deleted while a run of it had added Results
C26_Witness ==
    \E w \in Workers :
        /\ run[w].pc = "running"
        /\ ~scrape[run[w].scrape_id].exists
        /\ Rows(w) # {}

\* C24: every step leaves each stored Result as it was, up to its hidden flag,
\* unless the step deletes its scrape; a step of a run leaves the stored Results
\* untouched, hidden flag included, and only adds to them.
C24_ResultsImmutable ==
    [][/\ \A x \in results :
            \/ \E y \in results' : [y EXCEPT !.is_hidden = x.is_hidden] = x
            \/ scrape[x.scrape_id].exists /\ ~scrape'[x.scrape_id].exists
       /\ (\E w \in Workers : Step(w)) => results \subseteq results']_vars
\* a stored Result has been hidden, and a later run of its scrape has completed
C24_Witness ==
    \E x \in results :
        /\ x.is_hidden
        /\ scrape[x.scrape_id].last_run >= 2
        /\ exit.how = "done"

\* C30: a run_scrape call either starts a run of a scrape that exists and is
\* active, or changes nothing: no run is started (no source fetched, no call to the
\* scoring client or the CRM), and the Results, the ledger and every Scrape row,
\* last_run included, stay as they were.
C30_PausedRunIsNoOp ==
    [][runs' # runs
          => /\ \A w \in Workers :
                  Step(w) => /\ run'[w].pc = "running"
                             /\ scrape[run'[w].scrape_id].exists
                             /\ scrape[run'[w].scrape_id].is_active
             /\ (~\E w \in Workers : Step(w))
                  => /\ \E j \in ScrapeIds :
                          ~(scrape[j].exists /\ scrape[j].is_active)
                     /\ results' = results
                     /\ usage' = usage
                     /\ scrape' = scrape
                     /\ aiCalls' = aiCalls
                     /\ lock' = lock
                     /\ exit' = exit]_vars
\* every run_scrape call made was one of a paused or a deleted scrape, and nothing
\* has been fetched, scored, notified or stored
C30_Witness ==
    /\ runs = MaxRuns
    /\ \E j \in ScrapeIds : scrape[j].exists /\ ~scrape[j].is_active
    /\ \E j \in ScrapeIds : ~scrape[j].exists
    /\ \A j \in ScrapeIds : scrape[j].last_run = 0
    /\ \A w \in Workers : run[w] = Idle
    /\ results = {}
    /\ exit.how = "none"

====
